---- MODULE Spec2Model ----
(***************************************************************************)
(* State-machine model of git_helper.py: the module-level credential       *)
(* loading, the __main__ tool-call dispatch loop, the executors it calls   *)
(* and create_github_issue_from_error_log (called directly, since the      *)
(* __main__ loop has no branch for it).                                    *)
(*                                                                         *)
(* Text is a sequence of tokens.  A token is one character ("a", ",",      *)
(* " ", "\n") or one of the literal markers "Title:", "Body:", "Labels:",  *)
(* which the regular expression of create_github_issue_from_error_log      *)
(* matches as a unit.  A text that is not broken into characters (a branch *)
(* name, "main", "Update code") is a one-token sequence.                   *)
(***************************************************************************)
EXTENDS Integers, Sequences, FiniteSets, TLC

\* ------------------------------------------------------------------ bounds
\* longest text, in tokens, the generative model returns to create_pull_request
MaxLen == 5
\* longest text, in tokens, the generative model returns to
\* create_github_issue_from_error_log
MaxIssueLen == 5
\* most tool calls in one model response
MaxCalls == 2

\* ------------------------------------------------------------- text helpers
NL == "\n"
\* characters str.strip() and the regex class \s remove / match
Whitespace == {" ", NL}

\* all token sequences over alphabet A of length at most n
TextsUpTo(A, n) == UNION {[1..k -> A] : k \in 0..n}

AllIn(s, a, b, S) == \A i \in a..b : s[i] \in S

\* str.strip(): drop leading and trailing whitespace
strip(s) ==
    LET keep == {i \in 1..Len(s) : s[i] \notin Whitespace}
    IN  IF keep = {} THEN <<>>
        ELSE LET lo == CHOOSE i \in keep : \A j \in keep : i <= j
                 hi == CHOOSE i \in keep : \A j \in keep : i >= j
             IN  SubSeq(s, lo, hi)

\* Python None and a present value
None == [some |-> FALSE, val |-> <<>>]
Some(v) == [some |-> TRUE, val |-> v]
\* Python truthiness of an optional string: None and "" are falsy
Truthy(x) == x.some /\ x.val # <<>>

\* re.match(r"(?s)(.*?)\n\n(.*)", completion): the positions i where "\n\n"
\* starts; the lazy first group stops at the smallest one
PairBreaks(s) == {i \in 1..(Len(s) - 1) : s[i] = NL /\ s[i + 1] = NL}
PairMatches(s) == PairBreaks(s) # {}
\* the first group made greedy: (.*)\n\n(.*) splits at the last "\n\n"
PairGroupsGreedy(s) ==
    LET i == CHOOSE x \in PairBreaks(s) : \A y \in PairBreaks(s) : x >= y
    IN  [title |-> SubSeq(s, 1, i - 1), body |-> SubSeq(s, i + 2, Len(s))]
PairGroups(s) ==
    LET i == CHOOSE x \in PairBreaks(s) : \A y \in PairBreaks(s) : x <= y
    IN  [title |-> SubSeq(s, 1, i - 1), body |-> SubSeq(s, i + 2, Len(s))]

\* re.match(r"Title:\s*(.*?)\n+Body:\s*(.*?)\n+Labels:\s*(.*)", response,
\* re.DOTALL).  The backtracking matcher tries, in this order of preference:
\* the longest \s* run, then the shortest lazy group, then the longest \n+
\* run, for the Title part and then for the Body part.
\* Some "\n" followed by "Labels:" lies at or after position q
LabelsReachable(s, q) ==
    \E j \in q..(Len(s) - 1) : s[j] = NL /\ s[j + 1] = "Labels:"

\* <<k, g, m>>: \s* takes k tokens from position q, the lazy group g tokens,
\* \n+ takes m newlines, and the marker follows
PartOk(s, q, c, marker) ==
    LET k == c[1]
        g == c[2]
        m == c[3]
        p == q + k + g
    IN  /\ m >= 1
        /\ p + m <= Len(s)
        /\ AllIn(s, q, q + k - 1, Whitespace)
        /\ AllIn(s, p, p + m - 1, {NL})
        /\ s[p + m] = marker

\* c is tried before d by the backtracking matcher
TriedBefore(c, d) ==
    \/ c[1] > d[1]
    \/ c[1] = d[1] /\ c[2] < d[2]
    \/ c[1] = d[1] /\ c[2] = d[2] /\ c[3] >= d[3]

TitleCands(s) ==
    {c \in (0..Len(s)) \X (0..Len(s)) \X (0..Len(s)) :
        /\ PartOk(s, 2, c, "Body:")
        /\ LabelsReachable(s, 2 + c[1] + c[2] + c[3] + 1)}

TripleMatches(s) == Len(s) >= 1 /\ s[1] = "Title:" /\ TitleCands(s) # {}

\* str.split(","): the pieces between the commas
RECURSIVE split(_)
split(s) ==
    LET commas == {i \in 1..Len(s) : s[i] = ","}
    IN  IF commas = {} THEN <<s>>
        ELSE LET i == CHOOSE x \in commas : \A y \in commas : x <= y
             IN  <<SubSeq(s, 1, i - 1)>> \o split(SubSeq(s, i + 1, Len(s)))

\* match.groups() of the Title/Body/Labels expression
TripleGroups(s) ==
    LET n == Len(s)
        c1 == CHOOSE c \in TitleCands(s) : \A d \in TitleCands(s) : TriedBefore(c, d)
        t0 == 2 + c1[1]
        b == t0 + c1[2] + c1[3]
        bodyCands == {c \in (0..n) \X (0..n) \X (0..n) : PartOk(s, b + 1, c, "Labels:")}
        c2 == CHOOSE c \in bodyCands : \A d \in bodyCands : TriedBefore(c, d)
        b0 == b + 1 + c2[1]
        l == b0 + c2[2] + c2[3]
        ws == {k \in 0..(n - l) : AllIn(s, l + 1, l + k, Whitespace)}
        k3 == CHOOSE k \in ws : \A j \in ws : k >= j
    IN  [title |-> SubSeq(s, t0, t0 + c1[2] - 1),
         body |-> SubSeq(s, b0, b0 + c2[2] - 1),
         labels_str |-> SubSeq(s, l + 1 + k3, n)]

\* labels = [l.strip() for l in labels_str.split(",")]
Labels(labels_str) ==
    LET parts == split(labels_str)
    IN  [i \in 1..Len(parts) |-> strip(parts[i])]

\* ------------------------------------------------------------------ state
VARIABLES
    entry,           \* "main": run as a script; "direct": one executor called
    GITHUB_TOKEN,    \* TRUE when os.environ holds it, FALSE when it is None
    OPENAI_API_KEY,  \* likewise
    pc,              \* position of the single thread of control
    ncalls,          \* len(message.tool_calls), 0 when it is None or empty
    reply,           \* message.content
    i,               \* tool calls whose loop iteration has begun
    tool_call,       \* the tool call of the current iteration
    function_args,   \* json.loads(tool_call.function.arguments), or the
                     \* keyword arguments of a direct call
    out,             \* lines printed
    log,             \* every external call made in the run, in order
    reqs,            \* history: what became of each tool call
    commit_message, base, title, body,   \* executor parameters
    base_ref, head_ref, error_log,       \* executor parameters
    labels,          \* labels parsed by create_github_issue_from_error_log
    diff,            \* text the version-control read returned
    content,         \* text the executor's generative call returned
    completion,      \* content.strip()
    repo,            \* get_repo_from_git()
    data,            \* JSON body of the HTTP POST
    resp,            \* status and body of the HTTP response
    calls,           \* external calls of the executor that is running
    ret              \* value the executor returned

mainVars == <<entry, GITHUB_TOKEN, OPENAI_API_KEY, ncalls, reply, i, tool_call,
              function_args, out>>
paramVars == <<commit_message, base, title, body, base_ref, head_ref, error_log>>
localVars == <<diff, content, completion, labels, repo, data, resp>>
vars == <<mainVars, pc, log, reqs, paramVars, localVars, calls, ret>>

\* ------------------------------------------------------------ the catalog
\* names of the tools list, which are the names the __main__ loop tests
Catalog == {"commit_and_push_changes", "create_pull_request", "explain_changes",
            "suggest_review_comments", "summarize_todos", "generate_release_notes"}
\* a function of the module that is no catalog entry and has no branch
Uncatalogued == "create_github_issue_from_error_log"

\* dict.get(key, default) on a mapping from keys to texts
Get(d, k, default) == IF k \in DOMAIN d THEN Some(d[k]) ELSE default

\* all mappings that give each key of `keys` either no value or one of vals[k]
Mappings(keys, vals) ==
    UNION {{m \in [ks -> UNION {vals[k] : k \in keys}] :
                \A k \in ks : m[k] \in vals[k]} : ks \in SUBSET keys}

ArgValues ==
    [message |-> {<<>>, <<"msg">>},
     base |-> {<<"dev">>},
     title |-> {<<>>, <<"t">>},
     body |-> {<<>>, <<"b">>},
     base_ref |-> {<<"v1">>},
     head_ref |-> {<<"v2">>},
     error_log |-> {<<"trace">>}]

\* keys a well-behaved model supplies for a tool
KeysOf(name) ==
    CASE name = "commit_and_push_changes" -> {"message"}
      [] name = "create_pull_request" -> {"base", "title", "body"}
      [] name = "generate_release_notes" -> {"base_ref", "head_ref"}
      [] OTHER -> {}

\* tool_call.function.arguments: a string json.loads rejects, a JSON value
\* that is no object, or a JSON object
Payloads(name) ==
    {[kind |-> "undecodable", map |-> <<>>], [kind |-> "nonmap", map |-> <<>>]}
    \cup {[kind |-> "map", map |-> m] : m \in Mappings(KeysOf(name), ArgValues)}

NoArgs == [kind |-> "map", map |-> <<>>]
NoCall == [name |-> "", arguments |-> NoArgs]
NoRet == [none |-> TRUE]
NoResp == [status |-> 0, json |-> [html_url |-> None, message |-> None]]
NoData == [none |-> TRUE]

\* texts of the collaborators
PRAlphabet == {"a", " ", NL}
IssueAlphabet == {"Title:", "Body:", "Labels:", NL, "a", ","}
Samples == {<<"a">>, <<" ", "a", NL>>, <<"a", NL, NL, "a">>, <<>>}
\* well-formed and nearly well-formed issue texts longer than the bound
IssueSamples ==
    {<<"Title:", "a", NL, NL, "Body:", "a", NL, NL, "Labels:", "a", ",", NL, "a">>,
     <<NL, "Title:", "a", NL, "Body:", "a", NL, "Labels:", NL>>,
     <<"Title:", "a", NL, "Body:", "a", NL, "a", NL>>}
\* a __main__ run draws the executors' generated texts from Samples; a direct
\* call of an executor draws them from every text within the bound
GeneratedTexts(fn) ==
    IF entry = "main" THEN Samples
    ELSE CASE fn \in {"commit_and_push_changes", "create_pull_request"} ->
                  TextsUpTo(PRAlphabet, MaxLen)
           [] fn = Uncatalogued -> TextsUpTo(IssueAlphabet, MaxIssueLen) \cup IssueSamples
           [] OTHER -> Samples
Diffs == {<<>>, <<"d">>}
\* one 2xx and one non-2xx status
Statuses == {201, 422}
Success(status) == 200 <= status /\ status < 300

\* ------------------------------------------------------------------- Init
InitLocals ==
    /\ commit_message = None /\ base = None /\ title = None /\ body = None
    /\ base_ref = None /\ head_ref = None /\ error_log = None
    /\ diff = <<>> /\ content = None /\ completion = <<>> /\ labels = <<>>
    /\ repo = None /\ data = NoData /\ resp = NoResp /\ calls = <<>> /\ ret = NoRet

\* python git_helper.py INSTRUCTIONS, after lines 10-18 have run
InitMain ==
    /\ entry = "main"
    /\ GITHUB_TOKEN \in BOOLEAN /\ OPENAI_API_KEY \in BOOLEAN
    /\ pc = "main"
    /\ ncalls = 0 /\ reply = None /\ i = 0 /\ tool_call = NoCall
    /\ function_args = NoArgs
    /\ out = <<>> /\ log = <<>> /\ reqs = <<>>
    /\ InitLocals

\* ---------------------------------------------------------------- helpers
\* an external call: recorded in the run's log and in the executor's calls
Called(op, arg, raised, code) ==
    /\ log' = Append(log, [req |-> i, op |-> op])
    /\ calls' = Append(calls, [op |-> op, arg |-> arg, raised |-> raised, code |-> code])

MarkReq(outcome) ==
    reqs' = IF i >= 1 THEN [reqs EXCEPT ![i].outcome = outcome] ELSE reqs

\* an exception nothing catches: the traceback ends the process
Uncaught(outcome) == pc' = "crashed" /\ MarkReq(outcome)

Printed(kind, val) == out' = Append(out, [kind |-> kind, val |-> val])

\* ------------------------------------------------- __main__, lines 226-284
\* openai.chat.completions.create(model, messages, tools, tool_choice) and
\* print(f"{message=}").  The client refuses to be built without an API key.
CallModel ==
    /\ pc = "main"
    /\ log' = Append(log, [req |-> 0, op |-> "openai"])
    /\ \/ /\ pc' = "crashed"
          /\ UNCHANGED <<ncalls, reply, out>>
       \/ /\ OPENAI_API_KEY
          /\ \E n \in 0..MaxCalls, c \in {None, Some(<<"hello">>)} :
                /\ n > 0 => c = None
                /\ ncalls' = n
                /\ reply' = c
                /\ Printed("message", c)
          /\ pc' = "branch"
    /\ UNCHANGED <<entry, GITHUB_TOKEN, OPENAI_API_KEY, i, tool_call, function_args,
                   reqs, paramVars, localVars, calls, ret>>

\* the else branch left out: nothing is printed without tool calls
BranchSilent ==
    /\ pc = "branch"
    /\ pc' = IF ncalls > 0 THEN "loop" ELSE "done"
    /\ UNCHANGED <<mainVars, log, reqs, paramVars, localVars, calls, ret>>
\* if message.tool_calls: ... else: print(message.content)
Branch ==
    /\ pc = "branch"
    /\ IF ncalls > 0
       THEN pc' = "loop" /\ out' = out
       ELSE pc' = "done" /\ Printed("content", reply)
    /\ UNCHANGED <<entry, GITHUB_TOKEN, OPENAI_API_KEY, ncalls, reply, i, tool_call,
                   function_args, log, reqs, paramVars, localVars, calls, ret>>

\* for tool_call in message.tool_calls: function_name = tool_call.function.name
Loop ==
    /\ pc = "loop"
    /\ IF i = ncalls
       THEN pc' = "done" /\ UNCHANGED <<i, tool_call, reqs>>
       ELSE /\ i' = i + 1
            /\ \E name \in Catalog \cup {Uncatalogued} :
                 \E a \in Payloads(name) :
                    /\ tool_call' = [name |-> name, arguments |-> a]
                    /\ reqs' = Append(reqs, [name |-> name, outcome |-> "decoding"])
            /\ pc' = "decode"
    /\ UNCHANGED <<entry, GITHUB_TOKEN, OPENAI_API_KEY, ncalls, reply, function_args,
                   out, log, paramVars, localVars, calls, ret>>

\* function_args = json.loads(tool_call.function.arguments)
Decode ==
    /\ pc = "decode"
    /\ IF tool_call.arguments.kind = "undecodable"
       THEN /\ pc' = "crashed"
            /\ MarkReq("undecodable")
            /\ UNCHANGED function_args
       ELSE /\ pc' = "dispatch"
            /\ function_args' = tool_call.arguments
            /\ UNCHANGED reqs
    /\ UNCHANGED <<entry, GITHUB_TOKEN, OPENAI_API_KEY, ncalls, reply, i, tool_call,
                   out, log, paramVars, localVars, calls, ret>>

\* a branch of the if/elif chain that reads function_args: .get raises
\* AttributeError on a JSON value that is no object, after the print
TakeAction(name, text, binds, next) ==
    /\ pc = "dispatch"
    /\ tool_call.name = name
    /\ Printed("action", Some(<<text>>))
    /\ IF function_args.kind = "nonmap" /\ binds
       THEN Uncaught("badargs")
       ELSE pc' = next /\ MarkReq("invoked")
    /\ UNCHANGED <<entry, GITHUB_TOKEN, OPENAI_API_KEY, ncalls, reply, i, tool_call,
                   function_args, log, localVars, calls, ret>>

Bound(binds, key, default) ==
    IF function_args.kind = "nonmap" /\ binds THEN None
    ELSE Get(function_args.map, key, default)

DispatchCommit ==
    /\ TakeAction("commit_and_push_changes", "commit and push changes", TRUE, "cp_entry")
    /\ commit_message' = Bound(TRUE, "message", None)
    /\ UNCHANGED <<base, title, body, base_ref, head_ref, error_log>>

DispatchPR ==
    /\ TakeAction("create_pull_request", "create pull request", TRUE, "pr_branch")
    /\ base' = Bound(TRUE, "base", Some(<<"main">>))
    /\ title' = Bound(TRUE, "title", None)
    /\ body' = Bound(TRUE, "body", None)
    /\ UNCHANGED <<commit_message, base_ref, head_ref, error_log>>

DispatchExplain ==
    /\ TakeAction("explain_changes", "explain changes", FALSE, "ex_diff")
    /\ UNCHANGED paramVars

DispatchSuggest ==
    /\ TakeAction("suggest_review_comments", "suggest review comments", FALSE, "sg_diff")
    /\ UNCHANGED paramVars

DispatchTodos ==
    /\ TakeAction("summarize_todos", "summarize todos", FALSE, "td_files")
    /\ UNCHANGED paramVars

DispatchNotes ==
    /\ TakeAction("generate_release_notes", "generate release notes", TRUE, "rn_log")
    /\ base_ref' = Bound(TRUE, "base_ref", Some(<<"origin/main">>))
    /\ head_ref' = Bound(TRUE, "head_ref", Some(<<"HEAD">>))
    /\ UNCHANGED <<commit_message, base, title, body, error_log>>

\* no branch of the chain matches and the chain has no else: the iteration
\* ends having printed nothing.  (function_args is not read again before
\* the next json.loads assigns it.)
DispatchNoMatch ==
    /\ pc = "dispatch"
    /\ tool_call.name \notin Catalog
    /\ pc' = "loop"
    /\ MarkReq("nomatch")
    /\ function_args' = NoArgs
    /\ UNCHANGED <<entry, GITHUB_TOKEN, OPENAI_API_KEY, ncalls, reply, i, tool_call,
                   out, log, paramVars, localVars, calls, ret>>

\* the executor's return value is dropped and the loop goes on; the locals of
\* the finished call are gone
Continue ==
    /\ pc = "returned"
    /\ entry = "main"
    /\ pc' = "loop"
    /\ MarkReq("returned")
    /\ function_args' = NoArgs
    /\ commit_message' = None /\ base' = None /\ title' = None /\ body' = None
    /\ base_ref' = None /\ head_ref' = None /\ error_log' = None
    /\ diff' = <<>> /\ content' = None /\ completion' = <<>> /\ labels' = <<>>
    /\ repo' = None /\ data' = NoData /\ resp' = NoResp /\ calls' = <<>>
    /\ ret' = NoRet
    /\ UNCHANGED <<entry, GITHUB_TOKEN, OPENAI_API_KEY, ncalls, reply, i, tool_call,
                   out, log>>

MainNext ==
    \/ CallModel \/ Branch \/ Loop \/ Decode
    \/ DispatchCommit \/ DispatchPR \/ DispatchExplain \/ DispatchSuggest
    \/ DispatchTodos \/ DispatchNotes \/ DispatchNoMatch \/ Continue

\* ------------------------------------------------------------- executors
\* the call raises: subprocess.check_output on a non-zero exit, the generative
\* call or requests.post on an API or network error, response.json() on a
\* body that is no JSON
Raises(op, arg) == Called(op, arg, TRUE, 0) /\ Uncaught("raised")
Returns(op, arg, code, next) ==
    Called(op, arg, FALSE, code) /\ pc' = next /\ UNCHANGED reqs

ExitCodes == {0, 1}
HeadBranch == <<"feature">>

\* commit_and_push_changes, line 27: if not commit_message
CommitEntry ==
    /\ pc = "cp_entry"
    /\ pc' = IF Truthy(commit_message) THEN "cp_add" ELSE "cp_diff"
    /\ UNCHANGED <<mainVars, log, reqs, paramVars, localVars, calls, ret>>

\* line 28: diff = subprocess.check_output(["git", "diff"])
CommitDiff ==
    /\ pc = "cp_diff"
    /\ \/ Raises("git diff", <<>>) /\ UNCHANGED diff
       \/ \E d \in Diffs : diff' = d /\ Returns("git diff", <<>>, 0, "cp_gen")
    /\ UNCHANGED <<mainVars, paramVars, content, completion, labels, repo, data, resp, ret>>

\* lines 29-34: commit_message = openai...create(...).content.strip()
CommitGen ==
    /\ pc = "cp_gen"
    /\ \/ Raises("openai", diff) /\ UNCHANGED <<commit_message, content>>
       \/ /\ OPENAI_API_KEY
          /\ \E c \in GeneratedTexts("commit_and_push_changes") :
                content' = Some(c) /\ commit_message' = Some(strip(c))
          /\ Returns("openai", diff, 0, "cp_add")
    /\ UNCHANGED <<mainVars, base, title, body, base_ref, head_ref, error_log,
                   diff, completion, labels, repo, data, resp, ret>>

\* git add with its exit status checked: a failed add ends the executor
CommitAddChecked ==
    /\ pc = "cp_add"
    /\ \E e \in ExitCodes :
          /\ Returns("git add", <<>>, e, IF e = 0 THEN "cp_commit" ELSE "returned")
          /\ ret' = IF e = 0 THEN ret ELSE [str |-> commit_message.val]
    /\ UNCHANGED <<mainVars, paramVars, localVars>>
\* line 37: subprocess.run(["git", "add", "-A"]); the exit status is not read
CommitAdd ==
    /\ pc = "cp_add"
    /\ \E e \in ExitCodes : Returns("git add", <<>>, e, "cp_commit")
    /\ UNCHANGED <<mainVars, paramVars, localVars, ret>>

\* line 38: subprocess.run(["git", "commit", "-m", commit_message])
CommitCommit ==
    /\ pc = "cp_commit"
    /\ \E e \in ExitCodes : Returns("git commit", commit_message.val, e, "cp_push")
    /\ UNCHANGED <<mainVars, paramVars, localVars, ret>>

\* lines 39-40: subprocess.run(["git", "push"]); return commit_message
CommitPush ==
    /\ pc = "cp_push"
    /\ \E e \in ExitCodes : Returns("git push", <<>>, e, "returned")
    /\ ret' = [str |-> commit_message.val]
    /\ UNCHANGED <<mainVars, paramVars, localVars>>

\* create_pull_request, line 43: git rev-parse --abbrev-ref HEAD
PRBranch ==
    /\ pc = "pr_branch"
    /\ \/ Raises("git rev-parse", <<>>)
       \/ Returns("git rev-parse", <<>>, 0, "pr_diff")
    /\ UNCHANGED <<mainVars, paramVars, localVars, ret>>

\* line 46: if not title or not body
NeedsSynthesis(t, b) == ~Truthy(t) \/ ~Truthy(b)

\* line 44: git diff origin/{base}...{branch}, and the test of line 46
PRDiff ==
    /\ pc = "pr_diff"
    /\ \/ Raises("git diff", base.val) /\ UNCHANGED diff
       \/ \E d \in Diffs :
            /\ diff' = d
            /\ Returns("git diff", base.val, 0,
                       IF NeedsSynthesis(title, body) THEN "pr_gen" ELSE "pr_repo")
    /\ UNCHANGED <<mainVars, paramVars, content, completion, labels, repo, data, resp, ret>>

\* lines 53-54: title, body = match.groups() if match else ("Update code", completion)
SplitPair(text) ==
    IF PairMatches(text) THEN PairGroups(text)
    ELSE [title |-> <<"Update code">>, body |-> text]

\* lines 47-54: the generative call, strip, and the assignment of both title
\* and body from the match
PRGen ==
    /\ pc = "pr_gen"
    /\ \/ Raises("openai", diff) /\ UNCHANGED <<title, body, content, completion>>
       \/ /\ OPENAI_API_KEY
          /\ \E c \in GeneratedTexts("create_pull_request") :
                /\ content' = Some(c)
                /\ completion' = strip(c)
                /\ title' = Some(SplitPair(strip(c)).title)
                /\ body' = Some(SplitPair(strip(c)).body)
          /\ Returns("openai", diff, 0, "pr_repo")
    /\ UNCHANGED <<mainVars, commit_message, base, base_ref, head_ref, error_log,
                   diff, labels, repo, data, resp, ret>>

\* get_repo_from_git, lines 20-24: git config --get remote.origin.url, then
\* the owner/name the expression finds in it, or None
GetRepo(next) ==
    \/ Raises("git config", <<>>) /\ UNCHANGED repo
    \/ \E r \in {None, Some(<<"owner/name">>)} :
            repo' = r /\ Returns("git config", <<>>, 0, next)

\* line 56
PRRepo ==
    /\ pc = "pr_repo"
    /\ GetRepo("pr_post")
    /\ UNCHANGED <<mainVars, paramVars, diff, content, completion, labels, data, resp, ret>>

\* the server's JSON body: the created object, or an error message
JsonOf(status, url) ==
    IF Success(status) THEN [html_url |-> Some(url), message |-> None]
    ELSE [html_url |-> None, message |-> Some(<<"error">>)]

\* lines 57-68: requests.post(url, headers=headers, json=data)
PRPost ==
    /\ pc = "pr_post"
    /\ data' = [title |-> title, head |-> Some(HeadBranch), base |-> base, body |-> body]
    /\ \/ Raises("POST pulls", <<>>) /\ UNCHANGED resp
       \/ \E st \in Statuses :
            /\ resp' = [status |-> st, json |-> JsonOf(st, <<"pull-url">>)]
            /\ Returns("POST pulls", <<>>, st, "pr_json")
    /\ UNCHANGED <<mainVars, paramVars, diff, content, completion, labels, repo, ret>>

\* line 69: return response.json()
PRJson ==
    /\ pc = "pr_json"
    /\ \/ Uncaught("raised") /\ UNCHANGED ret
       \/ pc' = "returned" /\ ret' = [json |-> resp.json] /\ UNCHANGED reqs
    /\ UNCHANGED <<mainVars, log, paramVars, localVars, calls>>

\* an executor that reads one text from version control and returns what the
\* model makes of it, stripped: lines 72-79, 82-90, 93-105, 108-116
ReadStep(here, op, arg, next) ==
    /\ pc = here
    /\ \/ Raises(op, arg) /\ UNCHANGED diff
       \/ \E d \in Diffs : diff' = d /\ Returns(op, arg, 0, next)
    /\ UNCHANGED <<mainVars, paramVars, content, completion, labels, repo, data, resp, ret>>

GenStep(here, fn) ==
    /\ pc = here
    /\ \/ Raises("openai", diff) /\ UNCHANGED <<content, ret>>
       \/ /\ OPENAI_API_KEY
          /\ \E c \in GeneratedTexts(fn) :
                content' = Some(c) /\ ret' = [str |-> strip(c)]
          /\ Returns("openai", diff, 0, "returned")
    /\ UNCHANGED <<mainVars, paramVars, diff, completion, labels, repo, data, resp>>

ExplainDiff == ReadStep("ex_diff", "git diff", <<>>, "ex_gen")
ExplainGen == GenStep("ex_gen", "explain_changes")
SuggestDiff == ReadStep("sg_diff", "git diff", <<>>, "sg_gen")
SuggestGen == GenStep("sg_gen", "suggest_review_comments")
\* git ls-files, then every tracked file is opened and read; the text kept is
\* the lines that contain "TODO", joined
TodosFiles == ReadStep("td_files", "git ls-files", <<>>, "td_gen")
TodosGen == GenStep("td_gen", "summarize_todos")
NotesLog == ReadStep("rn_log", "git log", base_ref.val \o head_ref.val, "rn_gen")
NotesGen == GenStep("rn_gen", "generate_release_notes")

ExecNext ==
    \/ CommitEntry \/ CommitDiff \/ CommitGen \/ CommitAdd \/ CommitCommit \/ CommitPush
    \/ PRBranch \/ PRDiff \/ PRGen \/ PRRepo \/ PRPost \/ PRJson
    \/ ExplainDiff \/ ExplainGen \/ SuggestDiff \/ SuggestGen
    \/ TodosFiles \/ TodosGen \/ NotesLog \/ NotesGen

\* create_github_issue_from_error_log, lines 119-131: the generative call,
\* strip, the match, and either the error result or the three groups
\* the error result without the text
ParseErrorWithoutRaw(response) == [error |-> <<"Could not parse response">>, raw |-> <<>>]
ParseError(response) == [error |-> <<"Could not parse response">>, raw |-> response]
IssueGen ==
    /\ pc = "is_gen"
    /\ \/ /\ Raises("openai", error_log.val)
          /\ UNCHANGED <<title, body, content, completion, labels, ret>>
       \/ /\ OPENAI_API_KEY
          /\ \E c \in GeneratedTexts(Uncatalogued) :
                /\ content' = Some(c)
                /\ completion' = strip(c)
                /\ IF TripleMatches(strip(c))
                   THEN /\ title' = Some(TripleGroups(strip(c)).title)
                        /\ body' = Some(TripleGroups(strip(c)).body)
                        /\ labels' = Labels(TripleGroups(strip(c)).labels_str)
                        /\ Returns("openai", error_log.val, 0, "is_repo")
                        /\ UNCHANGED ret
                   ELSE /\ ret' = ParseError(strip(c))
                        /\ Returns("openai", error_log.val, 0, "returned")
                        /\ UNCHANGED <<title, body, labels>>
    /\ UNCHANGED <<mainVars, commit_message, base, base_ref, head_ref, error_log,
                   diff, repo, data, resp>>

\* line 134
IssueRepo ==
    /\ pc = "is_repo"
    /\ GetRepo("is_post")
    /\ UNCHANGED <<mainVars, paramVars, diff, content, completion, labels, data, resp, ret>>

\* lines 136-139: requests.post(url, json=data, headers=headers)
IssuePost ==
    /\ pc = "is_post"
    /\ data' = [title |-> title, body |-> body, labels |-> labels]
    /\ \/ Raises("POST issues", <<>>) /\ UNCHANGED resp
       \/ \E st \in Statuses :
            /\ resp' = [status |-> st, json |-> JsonOf(st, <<"issue-url">>)]
            /\ Returns("POST issues", <<>>, st, "is_json")
    /\ UNCHANGED <<mainVars, paramVars, diff, content, completion, labels, repo, ret>>

\* line 140: return {"issue_url": resp.json().get("html_url"), "status": resp.status_code}
IssueJson ==
    /\ pc = "is_json"
    /\ \/ Uncaught("raised") /\ UNCHANGED ret
       \/ /\ pc' = "returned"
          /\ ret' = [issue_url |-> resp.json.html_url, status |-> resp.status]
          /\ UNCHANGED reqs
    /\ UNCHANGED <<mainVars, log, paramVars, localVars, calls>>

IssueNext == IssueGen \/ IssueRepo \/ IssuePost \/ IssueJson

\* ------------------------------------------------------- specifications

\* one executor called with keyword arguments, the def's defaults filling in
DirectKeys(fn) == IF fn = Uncatalogued THEN {"error_log"} ELSE KeysOf(fn)
EntryPc(fn) ==
    CASE fn = "commit_and_push_changes" -> "cp_entry"
      [] fn = "create_pull_request" -> "pr_branch"
      [] fn = "explain_changes" -> "ex_diff"
      [] fn = "suggest_review_comments" -> "sg_diff"
      [] fn = "summarize_todos" -> "td_files"
      [] fn = "generate_release_notes" -> "rn_log"
      [] fn = Uncatalogued -> "is_gen"
Param(fn, owner, kw, key, default) == IF fn = owner THEN Get(kw, key, default) ELSE None

InitDirect ==
    /\ entry = "direct"
    /\ GITHUB_TOKEN \in BOOLEAN /\ OPENAI_API_KEY \in BOOLEAN
    /\ ncalls = 0 /\ reply = None /\ i = 0
    /\ out = <<>> /\ log = <<>> /\ reqs = <<>>
    /\ \E fn \in Catalog \cup {Uncatalogued} :
         \E kw \in Mappings(DirectKeys(fn), ArgValues) :
            /\ fn = Uncatalogued => "error_log" \in DOMAIN kw
            /\ tool_call = [name |-> fn, arguments |-> [kind |-> "map", map |-> kw]]
            /\ function_args = [kind |-> "map", map |-> kw]
            /\ pc = EntryPc(fn)
            /\ commit_message = Param(fn, "commit_and_push_changes", kw, "message", None)
            /\ base = Param(fn, "create_pull_request", kw, "base", Some(<<"main">>))
            /\ title = Param(fn, "create_pull_request", kw, "title", None)
            /\ body = Param(fn, "create_pull_request", kw, "body", None)
            /\ base_ref = Param(fn, "generate_release_notes", kw, "base_ref", Some(<<"origin/main">>))
            /\ head_ref = Param(fn, "generate_release_notes", kw, "head_ref", Some(<<"HEAD">>))
            /\ error_log = Param(fn, Uncatalogued, kw, "error_log", None)
    /\ diff = <<>> /\ content = None /\ completion = <<>> /\ labels = <<>>
    /\ repo = None /\ data = NoData /\ resp = NoResp /\ calls = <<>> /\ ret = NoRet

\* the module is run as a script on an instruction, or imported and one of
\* its executors called
Init == InitMain \/ InitDirect
Next == MainNext \/ ExecNext \/ IssueNext
Spec == Init /\ [][Next]_vars

\* ------------------------------------------------------------ properties
Ops(cs) == [k \in 1..Len(cs) |-> cs[k].op]
IsPrefix(a, b) == Len(a) <= Len(b) /\ SubSeq(b, 1, Len(a)) = a
Range(f) == {f[k] : k \in DOMAIN f}
Finished == pc \in {"done", "crashed"}
\* the executor fn has been entered, by the loop or by a direct call
Running(fn) ==
    /\ tool_call.name = fn
    /\ function_args.kind = "map"
    /\ entry = "main" => i >= 1 /\ reqs[i].outcome \in {"invoked", "raised"}
Supplied == function_args.map
HasBreak(t) == \E k \in 1..(Len(t) - 1) : t[k] = NL /\ t[k + 1] = NL
\* s is t without its leading and trailing whitespace
IsStripOf(s, t) ==
    /\ \E a \in 0..Len(t) :
          /\ a + Len(s) <= Len(t)
          /\ SubSeq(t, a + 1, a + Len(s)) = s
          /\ AllIn(t, 1, a, Whitespace)
          /\ AllIn(t, a + Len(s) + 1, Len(t), Whitespace)
    /\ s # <<>> => s[1] \notin Whitespace /\ s[Len(s)] \notin Whitespace
\* the remote writes and the outcome each reports
RemoteWrites == {"git add", "git commit", "git push", "POST pulls", "POST issues"}
Posts == {"POST pulls", "POST issues"}
WriteFailed(c) ==
    /\ c.op \in RemoteWrites
    /\ c.raised \/ (IF c.op \in Posts THEN ~Success(c.code) ELSE c.code # 0)
\* the returned value says that a write failed
FailureVisible(r) ==
    \/ "status" \in DOMAIN r /\ ~Success(r.status)
    \/ "json" \in DOMAIN r /\ r.json.message.some

\* C1: with two tool calls [A, B], B's executor is still invoked when a
\* collaborator call of A raises (A's calls all precede B's).
C1_SecondRunsWhenFirstRaises ==
    (entry = "main" /\ Finished /\ ncalls >= 2 /\ Len(reqs) >= 1
        /\ reqs[1].outcome = "raised")
    => (Len(reqs) >= 2 /\ reqs[2].outcome \in {"invoked", "raised", "returned"})

\* C2: a tool call naming no catalog entry is reported as a dispatch error.
C2_UnknownNameReported ==
    \A k \in 1..Len(reqs) :
        reqs[k].outcome = "nomatch" => \E j \in 1..Len(out) : out[j].kind = "error"

\* C3: an undecodable argument string stops only its own request: once the
\* run is over, every tool call of the batch has had its iteration.
C3_UndecodableIsPerRequest ==
    (entry = "main" /\ Finished /\ \E k \in 1..Len(reqs) : reqs[k].outcome = "undecodable")
    => Len(reqs) = ncalls

\* C4: a response without tool calls leads to no external call beyond the
\* one that produced it, and the reply is what the run prints after the
\* message itself.
C4_NoToolCallsNoSideEffects ==
    (entry = "main" /\ ncalls = 0 /\ pc \in {"branch", "done"})
    => /\ log = <<[req |-> 0, op |-> "openai"]>>
       /\ calls = <<>> /\ i = 0 /\ ret = NoRet
       /\ pc = "done" => out = <<[kind |-> "message", val |-> reply],
                                 [kind |-> "content", val |-> reply]>>
C4_Witness == entry = "main" /\ pc = "done" /\ ncalls = 0 /\ reply.some

\* C5: commit_and_push_changes without a commit message reads the diff, makes
\* one generative call on it, and then stages, commits with the synthesized
\* message and pushes, in that order, whatever the exit statuses; it stops
\* early only when the diff or the generative call raises.
CommitSteps == <<"git diff", "openai", "git add", "git commit", "git push">>
C5_SynthesizedCommit ==
    (Running("commit_and_push_changes") /\ ~Truthy(Get(Supplied, "message", None))
        /\ pc \in {"cp_entry", "cp_diff", "cp_gen", "cp_add", "cp_commit", "cp_push",
                   "returned", "crashed"})
    => /\ IsPrefix(Ops(calls), CommitSteps)
       /\ pc = "crashed" =>
            calls # <<>> /\ Len(calls) <= 2 /\ calls[Len(calls)].raised
       /\ pc = "returned" =>
            /\ Ops(calls) = CommitSteps
            /\ calls[2].arg = diff
            /\ IsStripOf(calls[4].arg, content.val)
            /\ ret = [str |-> calls[4].arg]
C5_Witness ==
    /\ Running("commit_and_push_changes") /\ "message" \notin DOMAIN Supplied
    /\ pc = "returned" /\ diff # <<>> /\ calls[3].code # 0 /\ calls[4].arg # <<>>

\* C6 as stated: when the model's text lacks "Labels:", the executor returns
\* an error result holding that text, and posts nothing.
C6_RawIsModelText ==
    (Running(Uncatalogued) /\ content.some /\ "Labels:" \notin Range(content.val))
    => /\ pc = "returned"
       /\ DOMAIN ret = {"error", "raw"}
       /\ ret.raw = content.val
       /\ \A k \in 1..Len(calls) : calls[k].op \notin Posts
\* C6 amended: the error result holds the text stripped of leading and
\* trailing whitespace; and whenever an error result is returned nothing was
\* posted, whenever something is posted all three markers were there.
C6_RawIsStrippedText ==
    Running(Uncatalogued) =>
        /\ (content.some /\ "Labels:" \notin Range(content.val)) =>
              /\ pc = "returned"
              /\ DOMAIN ret = {"error", "raw"}
        /\ "error" \in DOMAIN ret =>
              /\ IsStripOf(ret.raw, content.val)
              /\ \A k \in 1..Len(calls) : calls[k].op \notin Posts
              /\ \A k \in 1..Len(log) : log[k].op \notin Posts
        /\ (\E k \in 1..Len(calls) : calls[k].op \in Posts) =>
              {"Title:", "Body:", "Labels:"} \subseteq Range(content.val)
C6_Witness ==
    /\ Running(Uncatalogued) /\ pc = "returned" /\ "error" \in DOMAIN ret
    /\ "Labels:" \notin Range(content.val)
    /\ {"Title:", "Body:"} \subseteq Range(content.val)
    /\ ret.raw # content.val

\* C7: an executor that makes a remote write shows a failed write in the
\* value it returns.
C7_FailedWriteVisible ==
    (pc = "returned" /\ \E k \in 1..Len(calls) : WriteFailed(calls[k]))
    => FailureVisible(ret)

\* C8: a run that started without one of the two credentials never gets
\* past its start: no model response, no dispatch, no executor call.
C8_FailFast ==
    (entry = "main" /\ (~GITHUB_TOKEN \/ ~OPENAI_API_KEY))
    => pc \in {"main", "crashed"} /\ i = 0 /\ calls = <<>>

\* create_pull_request has made its generative call and gone on
PRGenerated ==
    /\ Running("create_pull_request") /\ content.some
    /\ pc \in {"pr_repo", "pr_post", "pr_json", "returned", "crashed"}
\* t and b are what lies before and after the first "\n\n" of text
SplitAtFirstBreak(text, t, b) ==
    t \o <<NL, NL>> \o b = text /\ ~HasBreak(t \o <<NL>>)

\* C9 as stated: the model's text T is split at its first blank line into
\* title and body; a T without one becomes the body under "Update code".
C9_SplitsModelText ==
    PRGenerated =>
        IF HasBreak(content.val)
        THEN SplitAtFirstBreak(content.val, title.val, body.val)
        ELSE title.val = <<"Update code">> /\ body.val = content.val
\* C9 amended: the same of T stripped of leading and trailing whitespace;
\* that title and body are the ones posted, and nothing but a collaborator
\* that raises stops the executor after the generative step.
C9_SplitsStrippedText ==
    PRGenerated =>
        /\ IsStripOf(completion, content.val)
        /\ IF HasBreak(completion)
           THEN SplitAtFirstBreak(completion, title.val, body.val)
           ELSE title.val = <<"Update code">> /\ body.val = completion
        /\ pc \in {"pr_json", "returned"} =>
              /\ data.title = title /\ data.body = body
              /\ calls[Len(calls)].op = "POST pulls"
        /\ pc = "crashed" =>
              calls[Len(calls)].raised \/ calls[Len(calls)].op = "POST pulls"
C9_Witness ==
    /\ PRGenerated /\ pc = "returned"
    /\ HasBreak(completion) /\ completion # content.val

\* C10: what the model supplied for base, title and body is what is posted,
\* and base is "main" when the model gave none.
C10_SuppliedArgumentsAreSent ==
    (Running("create_pull_request") /\ pc \in {"pr_json", "returned"})
    => \A k \in {"base", "title", "body"} :
          IF k \in DOMAIN Supplied
          THEN Supplied[k] # <<>> => data[k] = Some(Supplied[k])
          ELSE k = "base" => data[k] = Some(<<"main">>)
====
